---- MODULE Spec2Model ----
\* Blackjack Q-learning agent: a model of blackjack_ml_classes_and_functions.py.
\*
\* Player / AI_Player / Dealer / Deck objects become the variables below.  Python
\* floats are modelled as the IEEE 754 doubles they are: every literal, +, - and * is
\* rounded to the nearest double.
\* random.shuffle is modelled by a choice among the permutations in Shuffles.
EXTENDS Integers, Sequences, FiniteSets

VARIABLES
    mode,             \* "new" (agent constructed), "train" (train_module), "play" (play_game), "eps"
    pc,               \* position inside train_module / play_game
    episodes,         \* iterations of train_module's for-loop completed
    deck,             \* Deck.cards: the sequence of cards left, front first
    agent_hand,       \* AI_Player.hand (sequence of cards)
    agent_busted,     \* AI_Player.busted
    dealer_hand,      \* Dealer.hand
    dealer_busted,    \* Dealer.busted
    q_table,          \* AI_Player.q_table: state -> <<Q_hit, Q_stand>>
    epsilon,          \* AI_Player.epsilon
    exploration_rate, \* the exploration_rate argument AI_Player was constructed with
    decay_rate,       \* the decay_rate argument passed to decay_exploration
    state,            \* local variable state of train_module / play_game
    choice,           \* local variable choice of train_module ("unbound" before its first binding)
    outcome,          \* branch taken by the settlement of the last finished round
    calls,            \* history: the update_q_value calls made in the current episode
    q_prev,           \* history: q_table as it was before the most recent update_q_value call
    chosen            \* history: <<state, action>> of the most recent choose_action call of the round

vars == <<mode, pc, episodes, deck, agent_hand, agent_busted, dealer_hand, dealer_busted,
          q_table, epsilon, exploration_rate, decay_rate, state, choice, outcome,
          calls, q_prev, chosen>>

-----------------------------------------------------------------------------
\* Bounds of the model.

\* Hands given to get_hand_sum: at most MaxHandLen cards of the first NumHandRanks
\* ranks of HandRankList.
MaxHandLen == 5
NumHandRanks == 5

\* Shuffles explored: the first NumShuffles permutations of ShuffleList.
NumShuffles == 7
\* Episodes of train_module explored (its n_games argument ranges over 0..MaxEpisodes).
MaxEpisodes == 2
\* decay_rate arguments explored: the first NumDecayRates entries of DecayRateList.
NumDecayRates == 5
\* exploration_rate arguments explored: the first NumExplorationRates entries of ExplorationRateList.
NumExplorationRates == 7

-----------------------------------------------------------------------------
\* Python float arithmetic: IEEE 754 binary64 with round-to-nearest, ties to even.
\* A natural number is the sequence of its base-32768 digits, least significant
\* first, without leading zero digits (<<>> is 0).  A float is [neg, mag, exp],
\* standing for (-1)^neg * mag * 2^exp, kept canonical: mag has exactly 53 bits, and
\* zero is [FALSE, <<>>, 0].  The program's numbers stay far inside the normal range
\* (no overflow, no subnormal), and it never produces -0.0; an int operand (a reward
\* 1 or -1, the 0 of [0, 0]) is the float of the same value, as in Python.
\* Every operator first binds its operands to their values (Only of a one-element
\* set), so that an operand is computed once however often the body uses it.

Abs(n) == IF n < 0 THEN -n ELSE n

Only(S) == CHOOSE v \in S : TRUE

RECURSIVE NatTrim(_)
NatTrim(a0) ==
    Only({ IF a = <<>> THEN <<>>
           ELSE IF a[Len(a)] = 0 THEN NatTrim(SubSeq(a, 1, Len(a) - 1))
           ELSE a : a \in {a0} })

\* a + b + c for a carry c.
RECURSIVE NatAddC(_, _, _)
NatAddC(a0, b0, c0) ==
    Only({ IF a = <<>> /\ b = <<>> THEN (IF c = 0 THEN <<>> ELSE <<c>>)
           ELSE LET x == IF a = <<>> THEN 0 ELSE Head(a)
                    y == IF b = <<>> THEN 0 ELSE Head(b)
                IN  <<(x + y + c) % 32768>>
                        \o NatAddC(IF a = <<>> THEN <<>> ELSE Tail(a),
                                   IF b = <<>> THEN <<>> ELSE Tail(b),
                                   (x + y + c) \div 32768)
           : a \in {a0}, b \in {b0}, c \in {c0} })

NatAdd(a, b) == NatTrim(NatAddC(a, b, 0))

\* a - b - br for a >= b + br.
RECURSIVE NatSubB(_, _, _)
NatSubB(a0, b0, br0) ==
    Only({ IF a = <<>> THEN <<>>
           ELSE LET y == IF b = <<>> THEN 0 ELSE Head(b)
                IN  <<(Head(a) - y - br + 32768) % 32768>>
                        \o NatSubB(Tail(a),
                                   IF b = <<>> THEN <<>> ELSE Tail(b),
                                   IF Head(a) - y - br < 0 THEN 1 ELSE 0)
           : a \in {a0}, b \in {b0}, br \in {br0} })

NatSub(a, b) == NatTrim(NatSubB(a, b, 0))

\* a < b for trimmed a and b.
NatLess(a0, b0) ==
    Only({ IF Len(a) # Len(b) THEN Len(a) < Len(b)
           ELSE \E i \in 1..Len(a) :
                   /\ a[i] < b[i]
                   /\ \A j \in (i + 1)..Len(a) : a[j] = b[j]
           : a \in {a0}, b \in {b0} })

\* a * m + c for a single digit m.
RECURSIVE NatScale(_, _, _)
NatScale(a0, m0, c0) ==
    Only({ IF a = <<>> THEN (IF c = 0 THEN <<>> ELSE <<c>>)
           ELSE <<(Head(a) * m + c) % 32768>>
                    \o NatScale(Tail(a), m, (Head(a) * m + c) \div 32768)
           : a \in {a0}, m \in {m0}, c \in {c0} })

RECURSIVE NatMul(_, _)
NatMul(a0, b0) ==
    Only({ IF a = <<>> \/ b = <<>> THEN <<>>
           ELSE NatAdd(NatTrim(NatScale(a, Head(b), 0)), NatTrim(<<0>> \o NatMul(a, Tail(b))))
           : a \in {a0}, b \in {b0} })

\* Quotient and remainder of a by a divisor d of at most one digit.
RECURSIVE NatDivRem(_, _)
NatDivRem(a0, d0) ==
    Only({ IF a = <<>> THEN [q |-> <<>>, r |-> 0]
           ELSE Only({ [q |-> <<(hi.r * 32768 + Head(a)) \div d>> \o hi.q,
                        r |-> (hi.r * 32768 + Head(a)) % d]
                       : hi \in {NatDivRem(Tail(a), d)} })
           : a \in {a0}, d \in {d0} })

\* a * 2^k.
NatShift(a0, k0) ==
    Only({ NatTrim([i \in 1..(k \div 15) |-> 0] \o NatScale(a, 2^(k % 15), 0))
           : a \in {a0}, k \in {k0} })

\* floor(a / 2^k).
NatShiftRight(a0, k0) ==
    Only({ IF k \div 15 >= Len(a) THEN <<>>
           ELSE NatTrim(NatDivRem(SubSeq(a, (k \div 15) + 1, Len(a)), 2^(k % 15)).q)
           : a \in {a0}, k \in {k0} })

\* The number of binary digits of a trimmed a.
BitLen(a0) ==
    Only({ IF a = <<>> THEN 0
           ELSE 15 * (Len(a) - 1)
                    + (CHOOSE n \in 1..15 : 2^(n - 1) <= a[Len(a)] /\ a[Len(a)] < 2^n)
           : a \in {a0} })

\* The float nearest to (-1)^neg * mag * 2^exp, ties to the even mantissa: what every
\* float operation and every float literal of Python returns for its exact result.
DecNorm(neg0, mag0, exp0) ==
    Only({ IF mag = <<>> THEN [neg |-> FALSE, mag |-> <<>>, exp |-> 0]
           ELSE IF len <= 53
           THEN [neg |-> neg, mag |-> NatShift(mag, 53 - len), exp |-> exp - (53 - len)]
           ELSE Only({ Only({ IF BitLen(r) = 54
                              THEN [neg |-> neg, mag |-> NatShiftRight(r, 1), exp |-> exp + (len - 53) + 1]
                              ELSE [neg |-> neg, mag |-> r, exp |-> exp + (len - 53)]
                              : r \in {IF Head(q2) % 2 = 1
                                          /\ (NatShift(q2, len - 54) # mag \/ Head(q) % 2 = 1)
                                       THEN NatAdd(q, <<1>>) ELSE q} })
                       : q2 \in {NatShiftRight(mag, len - 54)},
                         q \in {NatShiftRight(mag, len - 53)} })
           : neg \in {neg0}, mag \in {NatTrim(mag0)}, exp \in {exp0}, len \in {BitLen(NatTrim(mag0))} })

\* floor(a / 10000^scale), and whether the division left a remainder.
RECURSIVE NatDivPow(_, _)
NatDivPow(a0, scale0) ==
    Only({ IF scale = 0 THEN [q |-> a, inexact |-> FALSE]
           ELSE Only({ Only({ [q |-> rest.q, inexact |-> rest.inexact \/ d.r # 0]
                              : rest \in {NatDivPow(NatTrim(d.q), scale - 1)} })
                       : d \in {NatDivRem(a, 10000)} })
           : a \in {a0}, scale \in {scale0} })

\* The float Python reads from the decimal literal n / 10000^scale (|n| < 10000): the
\* float nearest to it.  The quotient is taken with more than 55 bits and a last bit
\* that stands for the remainder, so that the rounding sees the exact value.
Dec(n, scale) ==
    IF scale = 0 THEN DecNorm(n < 0, <<Abs(n)>>, 0)
    ELSE Only({ DecNorm(n < 0, NatAdd(NatShift(d.q, 1), IF d.inexact THEN <<1>> ELSE <<>>),
                        -(60 + 14 * scale) - 1)
                : d \in {NatDivPow(NatShift(NatTrim(<<Abs(n)>>), 60 + 14 * scale), scale)} })

Zero == Dec(0, 0)
One == Dec(1, 0)

DecNeg(x0) == Only({ IF x.mag = <<>> THEN x ELSE [x EXCEPT !.neg = ~x.neg] : x \in {x0} })

\* x + y: the exact sum, rounded.
DecAdd(x0, y0) ==
    Only({ IF x.mag = <<>> THEN y
           ELSE IF y.mag = <<>> THEN x
           ELSE Only({ Only({ IF x.neg = y.neg THEN DecNorm(x.neg, NatAdd(a, b), e)
                              ELSE IF NatLess(a, b) THEN DecNorm(y.neg, NatSub(b, a), e)
                              ELSE DecNorm(x.neg, NatSub(a, b), e)
                              : a \in {NatShift(x.mag, x.exp - e)},
                                b \in {NatShift(y.mag, y.exp - e)} })
                       : e \in {IF x.exp < y.exp THEN x.exp ELSE y.exp} })
           : x \in {x0}, y \in {y0} })

\* x - y: the exact difference, rounded.
DecSub(x, y) == DecAdd(x, DecNeg(y))

\* x * y: the exact product, rounded.
DecMul(x0, y0) ==
    Only({ DecNorm(x.neg # y.neg, NatMul(x.mag, y.mag), x.exp + y.exp)
           : x \in {x0}, y \in {y0} })

\* x < y: the sign of the difference, which rounding does not change.
DecLess(x, y) == DecSub(x, y).neg

DecLeq(x, y) == ~DecLess(y, x)

\* Python's max(x, y): the first argument unless the second is strictly larger.
DecMax(x0, y0) == Only({ IF DecLess(x, y) THEN y ELSE x : x \in {x0}, y \in {y0} })

-----------------------------------------------------------------------------
\* Cards and the deck.

\* The suits of Deck.__init__ in its order; the source writes them as the glyphs
\* U+2660, U+2661, U+2662, U+2663, which are named here.
Suits == <<"spades", "hearts", "diamonds", "clubs">>

Ranks == <<"2", "3", "4", "5", "6", "7", "8", "9", "10", "J", "Q", "K", "A">>

Card(rank, suit) == [rank |-> rank, suit |-> suit]

\* Deck(): [Card(rank, suit) for suit in suits for rank in ranks].
NewDeck ==
    [i \in 1..(Len(Suits) * Len(Ranks)) |->
        Card(Ranks[((i - 1) % Len(Ranks)) + 1], Suits[((i - 1) \div Len(Ranks)) + 1])]

\* A permutation of the new deck: the cards of front, then the others in deck order.
Shuffled(front) ==
    front \o SelectSeq(NewDeck, LAMBDA c : \A i \in 1..Len(front) : front[i] # c)

\* The results of random.shuffle that are explored.
ShuffleList == <<
    Shuffled(<<Card("K", "spades"), Card("K", "hearts"), Card("K", "diamonds"), Card("7", "spades"),
               Card("6", "clubs"), Card("3", "hearts")>>),
    Shuffled(<<Card("7", "spades"), Card("5", "hearts"), Card("K", "hearts"), Card("9", "spades"),
               Card("2", "diamonds"), Card("3", "clubs"), Card("10", "spades")>>),
    Shuffled(<<Card("A", "spades"), Card("K", "spades"), Card("Q", "hearts"), Card("8", "diamonds"),
               Card("5", "clubs"), Card("7", "clubs")>>),
    Shuffled(<<Card("10", "diamonds"), Card("7", "diamonds"), Card("9", "clubs"), Card("8", "clubs"),
               Card("4", "hearts"), Card("2", "hearts"), Card("J", "clubs")>>),
    Shuffled(<<Card("K", "clubs"), Card("Q", "spades"), Card("J", "diamonds"), Card("7", "hearts"),
               Card("4", "spades"), Card("5", "spades")>>),
    Shuffled(<<Card("A", "hearts"), Card("A", "diamonds"), Card("2", "clubs"), Card("3", "diamonds"),
               Card("9", "diamonds"), Card("6", "spades"), Card("8", "hearts"), Card("10", "clubs")>>),
    Shuffled(<<Card("A", "clubs"), Card("6", "hearts"), Card("5", "spades"), Card("K", "diamonds"),
               Card("K", "hearts"), Card("2", "spades"), Card("9", "hearts"), Card("Q", "diamonds")>>),
    Shuffled(<<Card("8", "spades"), Card("8", "hearts"), Card("A", "clubs"), Card("6", "hearts"),
               Card("3", "spades"), Card("Q", "clubs"), Card("J", "hearts")>>),
    Shuffled(<<Card("10", "hearts"), Card("9", "hearts"), Card("10", "clubs"), Card("6", "diamonds"),
               Card("5", "diamonds"), Card("K", "clubs")>>) >>

Shuffles ==
    {ShuffleList[i] : i \in 1..(IF NumShuffles < Len(ShuffleList) THEN NumShuffles
                                                                   ELSE Len(ShuffleList))}

\* The shuffle that lets a player draw the most cards without busting: the agent gets
\* two aces, the dealer 5 and 6, and then come the other aces, the twos and the threes.
LongestHandShuffle ==
    Shuffled(<<Card("A", "spades"), Card("A", "hearts"), Card("5", "spades"), Card("6", "spades"),
               Card("A", "diamonds"), Card("A", "clubs"), Card("2", "spades"), Card("2", "hearts"),
               Card("2", "diamonds"), Card("2", "clubs"), Card("3", "spades"), Card("3", "hearts"),
               Card("3", "diamonds"), Card("3", "clubs")>>)

\* Deck.deal_card: self.cards.pop(0) returns the front card ...
deal_card(d) == Head(d)

\* after_deal removing the card at the back of the deck instead of the dealt one.
after_deal_back(d) == SubSeq(d, 1, Len(d) - 1)

\* ... and removes it from the deck.
after_deal(d) == Tail(d)

\* Player.hit: the dealt card is appended to the hand.
hit(hand, d) == Append(hand, deal_card(d))

\* Deck_deal_card that returns None from an empty deck instead of raising.
Deck_deal_card_returning_none(d) ==
    IF d = <<>> THEN [raised |-> "none", card |-> <<>>, cards |-> d]
    ELSE [raised |-> "none", card |-> Head(d), cards |-> Tail(d)]

\* Deck.deal_card with its failure: list.pop(0) raises IndexError on an empty list and
\* leaves the list as it is.
Deck_deal_card(d) ==
    IF d = <<>> THEN [raised |-> "IndexError", cards |-> d]
    ELSE [raised |-> "none", card |-> deal_card(d), cards |-> after_deal(d)]

\* Player.hit with its failure: the exception of deal_card leaves before the append.
Player_hit(hand, d) ==
    LET r == Deck_deal_card(d)
    IN  IF r.raised # "none" THEN [raised |-> r.raised, hand |-> hand, cards |-> r.cards]
        ELSE [raised |-> "none", hand |-> Append(hand, r.card), cards |-> r.cards]

-----------------------------------------------------------------------------
\* Hand evaluation.

\* str.isalpha on a rank.
IsAlpha(rank) == rank \in {"J", "Q", "K", "A"}

\* int(rank) for a number rank.
IntOf(rank) == 1 + (CHOOSE i \in 1..9 : Ranks[i] = rank)

\* What one card adds to hand_sum in the first loop of get_hand_sum.
CardValue(rank) ==
    IF IsAlpha(rank) /\ rank # "A" THEN 10
    ELSE IF rank = "A" THEN 11
    ELSE IntOf(rank)

RECURSIVE RawSum(_)
RawSum(hand) == IF hand = <<>> THEN 0 ELSE CardValue(Head(hand).rank) + RawSum(Tail(hand))

RECURSIVE AceCount(_)
AceCount(hand) ==
    IF hand = <<>> THEN 0
    ELSE (IF Head(hand).rank = "A" THEN 1 ELSE 0) + AceCount(Tail(hand))

\* while hand_sum > 21 and aces: hand_sum -= 10; aces -= 1
RECURSIVE AdjustAces(_, _)
AdjustAces(hand_sum, aces) ==
    IF hand_sum > 21 /\ aces > 0 THEN AdjustAces(hand_sum - 10, aces - 1) ELSE hand_sum

\* get_hand_sum with an if in place of the while: at most one ace is demoted.
get_hand_sum_one_demotion(hand) ==
    IF RawSum(hand) > 21 /\ AceCount(hand) > 0 THEN RawSum(hand) - 10 ELSE RawSum(hand)

get_hand_sum(hand) == AdjustAces(RawSum(hand), AceCount(hand))

\* is_busted that never sets the flag.
is_busted_never_set(busted, hand) == busted

\* Player.is_busted: the flag is set when the hand exceeds 21 and is never cleared here.
is_busted(busted, hand) == IF get_hand_sum(hand) > 21 THEN TRUE ELSE busted

should_hit(hand) == get_hand_sum(hand) <= 17

-----------------------------------------------------------------------------
\* The Q-learning core.

\* learning_rate=0.3, discount_factor=0.95, exploration_rate=1.0
Alpha == Dec(3000, 1)
Gamma == Dec(9500, 1)
DefaultExplorationRate == One
\* max(0.1, ...)
EpsilonFloor == Dec(1000, 1)
\* self.decay_exploration(0.9999)
TrainDecayRate == Dec(9999, 1)

\* Python's None (next_state of a terminal update).
None == <<>>

get_state(player_sum, dealer_card) ==
    IF IsAlpha(dealer_card.rank) /\ dealer_card.rank # "A" THEN <<player_sum, 10>>
    ELSE IF dealer_card.rank = "A" THEN <<player_sum, 11>>
    ELSE <<player_sum, IntOf(dealer_card.rank)>>

\* self.q_table.get(s, [0, 0])
QGet(q, s) == IF s \in DOMAIN q THEN q[s] ELSE <<Zero, Zero>>

\* GreedyAction with > in place of >=: a tie stands.
GreedyAction_strict(q, s) == IF DecLess(QGet(q, s)[2], QGet(q, s)[1]) THEN "hit" ELSE "stand"

\* The action the exploitation branch of choose_action returns.
GreedyAction(q, s) == IF DecLeq(QGet(q, s)[2], QGet(q, s)[1]) THEN "hit" ELSE "stand"

\* The actions choose_action may return: random.random() lies in [0, 1), so the
\* exploration branch can be taken iff epsilon > 0 and skipped iff epsilon < 1.
choose_action(q, eps, s) ==
    (IF DecLess(Zero, eps) THEN {"hit", "stand"} ELSE {})
        \cup (IF DecLess(eps, One) THEN {GreedyAction(q, s)} ELSE {})

\* update_q_value without the discount factor.
update_q_value_undiscounted(q, s, action, reward, next_state) ==
    LET action_index == IF action = "hit" THEN 1 ELSE 2
        next_max == IF next_state # None
                    THEN DecMax(QGet(q, next_state)[1], QGet(q, next_state)[2])
                    ELSE Zero
        old_q == QGet(q, s)[action_index]
        new_value == DecAdd(old_q, DecMul(Alpha, DecSub(DecAdd(reward, next_max), old_q)))
    IN  [k \in DOMAIN q \cup {s} |->
            IF k = s THEN [QGet(q, s) EXCEPT ![action_index] = new_value] ELSE q[k]]

\* update_q_value on a table that creates the entry it is asked for (a defaultdict):
\* reading Q[next_state] adds [0, 0] for it.
update_q_value_creates_next(q, s, action, reward, next_state) ==
    LET action_index == IF action = "hit" THEN 1 ELSE 2
        next_max == IF next_state # None
                    THEN DecMax(QGet(q, next_state)[1], QGet(q, next_state)[2])
                    ELSE Zero
        old_q == QGet(q, s)[action_index]
        new_value == DecAdd(old_q,
                        DecMul(Alpha, DecSub(DecAdd(reward, DecMul(Gamma, next_max)), old_q)))
    IN  [k \in DOMAIN q \cup {s} \cup (IF next_state # None THEN {next_state} ELSE {}) |->
            IF k = s THEN [QGet(q, s) EXCEPT ![action_index] = new_value] ELSE QGet(q, k)]

\* update_q_value: the table after the call.
update_q_value(q, s, action, reward, next_state) ==
    LET action_index == IF action = "hit" THEN 1 ELSE 2
        next_max == IF next_state # None
                    THEN DecMax(QGet(q, next_state)[1], QGet(q, next_state)[2])
                    ELSE Zero
        old_q == QGet(q, s)[action_index]
        new_value == DecAdd(old_q,
                        DecMul(Alpha, DecSub(DecAdd(reward, DecMul(Gamma, next_max)), old_q)))
    IN  [k \in DOMAIN q \cup {s} |->
            IF k = s THEN [QGet(q, s) EXCEPT ![action_index] = new_value] ELSE q[k]]

\* decay_exploration with the floor written as 0.5.
decay_exploration_floor_half(eps, rate) == DecMax(Dec(5000, 1), DecMul(eps, rate))

\* decay_exploration with the floor applied to epsilon before the multiplication.
decay_exploration_floor_first(eps, rate) == DecMul(DecMax(EpsilonFloor, eps), rate)

decay_exploration(eps, rate) == DecMax(EpsilonFloor, DecMul(eps, rate))

-----------------------------------------------------------------------------
\* train_module.

Call(s, a, r, ns) == [state |-> s, action |-> a, reward |-> r, next_state |-> ns]

\* hit_feedback computing next_state from the hand also when the agent is busted.
hit_feedback_never_terminal(busted, hand, dealer_card) ==
    [reward |-> IF busted THEN Dec(-1, 0) ELSE One,
     next_state |-> get_state(get_hand_sum(hand), dealer_card)]

\* Lines 177-184: reward and next_state of the update that follows a hit.
hit_feedback(busted, hand, dealer_card) ==
    IF busted THEN [reward |-> Dec(-1, 0), next_state |-> None]
    ELSE [reward |-> One, next_state |-> get_state(get_hand_sum(hand), dealer_card)]

\* train_settlement with >= in the first comparison: a tie is a loss.
train_settlement_tie_is_loss(busted, dealer_sum, agent_sum) ==
    IF busted THEN [branch |-> "bust", rewards |-> <<>>]
    ELSE IF dealer_sum >= agent_sum THEN [branch |-> "loss", rewards |-> <<Dec(-5000, 1)>>]
    ELSE [branch |-> "win", rewards |-> <<One>>]

\* train_settlement without the busted branch.
train_settlement_ignoring_bust(busted, dealer_sum, agent_sum) ==
    IF dealer_sum > agent_sum THEN [branch |-> "loss", rewards |-> <<Dec(-5000, 1)>>]
    ELSE IF dealer_sum = agent_sum THEN [branch |-> "push", rewards |-> <<Dec(5000, 1)>>]
    ELSE [branch |-> "win", rewards |-> <<One>>]

\* train_settlement whose busted branch makes the update of a loss.
train_settlement_bust_is_loss(busted, dealer_sum, agent_sum) ==
    IF busted \/ dealer_sum > agent_sum THEN [branch |-> "loss", rewards |-> <<Dec(-5000, 1)>>]
    ELSE IF dealer_sum = agent_sum THEN [branch |-> "push", rewards |-> <<Dec(5000, 1)>>]
    ELSE [branch |-> "win", rewards |-> <<One>>]

\* Lines 189-202: the branch of the settlement and the reward it passes to
\* update_q_value ("bust" makes no update).
train_settlement(busted, dealer_sum, agent_sum) ==
    IF busted THEN [branch |-> "bust", rewards |-> <<>>]
    ELSE IF dealer_sum > agent_sum THEN [branch |-> "loss", rewards |-> <<Dec(-5000, 1)>>]
    ELSE IF dealer_sum = agent_sum THEN [branch |-> "push", rewards |-> <<Dec(5000, 1)>>]
    ELSE [branch |-> "win", rewards |-> <<One>>]

\* TrainStart without self.busted = False: the flag of the last episode is kept.
TrainStart_keeps_busted ==
    /\ mode \in {"new", "train"}
    /\ pc = "idle"
    /\ episodes < MaxEpisodes
    /\ \E d0 \in Shuffles :
          LET d1 == after_deal(d0)
              d2 == after_deal(d1)
              d3 == after_deal(d2)
          IN  /\ agent_hand' = hit(hit(<<>>, d0), d1)
              /\ dealer_hand' = hit(hit(<<>>, d2), d3)
              /\ deck' = after_deal(d3)
    /\ state' = get_state(get_hand_sum(agent_hand'), dealer_hand'[1])
    /\ agent_busted' = agent_busted
    /\ dealer_busted' = FALSE
    /\ mode' = "train"
    /\ pc' = "loop"
    /\ outcome' = "none"
    /\ calls' = <<>>
    /\ q_prev' = q_table
    /\ chosen' = <<>>
    /\ UNCHANGED <<episodes, q_table, epsilon, exploration_rate, decay_rate, choice>>

\* TrainStart with a newly constructed agent for the episode: empty table, epsilon 1.
TrainStart_new_agent ==
    /\ mode \in {"new", "train"}
    /\ pc = "idle"
    /\ episodes < MaxEpisodes
    /\ \E d0 \in Shuffles :
          LET d1 == after_deal(d0)
              d2 == after_deal(d1)
              d3 == after_deal(d2)
          IN  /\ agent_hand' = hit(hit(<<>>, d0), d1)
              /\ dealer_hand' = hit(hit(<<>>, d2), d3)
              /\ deck' = after_deal(d3)
    /\ state' = get_state(get_hand_sum(agent_hand'), dealer_hand'[1])
    /\ agent_busted' = FALSE
    /\ dealer_busted' = FALSE
    /\ mode' = "train"
    /\ pc' = "loop"
    /\ outcome' = "none"
    /\ calls' = <<>>
    /\ q_prev' = <<>>
    /\ q_table' = <<>>
    /\ epsilon' = DefaultExplorationRate
    /\ chosen' = <<>>
    /\ UNCHANGED <<episodes, exploration_rate, decay_rate, choice>>

\* Lines 157-167: reset the agent, fresh deck and dealer, deal two cards each.
TrainStart ==
    /\ mode \in {"new", "train"}
    /\ pc = "idle"
    /\ episodes < MaxEpisodes
    /\ \E d0 \in Shuffles :
          LET d1 == after_deal(d0)
              d2 == after_deal(d1)
              d3 == after_deal(d2)
          IN  /\ agent_hand' = hit(hit(<<>>, d0), d1)
              /\ dealer_hand' = hit(hit(<<>>, d2), d3)
              /\ deck' = after_deal(d3)
    /\ state' = get_state(get_hand_sum(agent_hand'), dealer_hand'[1])
    /\ agent_busted' = FALSE
    /\ dealer_busted' = FALSE
    /\ mode' = "train"
    /\ pc' = "loop"
    /\ outcome' = "none"
    /\ calls' = <<>>
    /\ q_prev' = q_table
    /\ chosen' = <<>>
    /\ UNCHANGED <<episodes, q_table, epsilon, exploration_rate, decay_rate, choice>>

\* Lines 169-173: an iteration of the while loop in which the agent stands.
TrainStand ==
    /\ mode = "train"
    /\ pc = "loop"
    /\ ~agent_busted
    /\ "stand" \in choose_action(q_table, epsilon, state)
    /\ choice' = "stand"
    /\ chosen' = <<state, "stand">>
    /\ pc' = "settle"
    /\ UNCHANGED <<mode, episodes, deck, agent_hand, agent_busted, dealer_hand, dealer_busted,
                   q_table, epsilon, exploration_rate, decay_rate, state, outcome, calls, q_prev>>

\* Lines 169-187: an iteration of the while loop in which the agent hits.
TrainHit ==
    /\ mode = "train"
    /\ pc = "loop"
    /\ ~agent_busted
    /\ "hit" \in choose_action(q_table, epsilon, state)
    /\ deck # <<>>
    /\ agent_hand' = hit(agent_hand, deck)
    /\ deck' = after_deal(deck)
    /\ agent_busted' = is_busted(agent_busted, agent_hand')
    /\ LET fb == hit_feedback(agent_busted', agent_hand', dealer_hand[1])
       IN  /\ q_table' = update_q_value(q_table, state, "hit", fb.reward, fb.next_state)
           /\ calls' = Append(calls, Call(state, "hit", fb.reward, fb.next_state))
           /\ state' = fb.next_state
    /\ q_prev' = q_table
    /\ choice' = "hit"
    /\ chosen' = <<state, "hit">>
    /\ UNCHANGED <<mode, pc, episodes, dealer_hand, dealer_busted, epsilon, exploration_rate,
                   decay_rate, outcome>>

\* Lines 189-204: the settlement after the while loop, then decay_exploration(0.9999).
TrainSettle ==
    /\ mode = "train"
    /\ pc = "settle" \/ (pc = "loop" /\ agent_busted)
    /\ LET s == train_settlement(agent_busted, get_hand_sum(dealer_hand), get_hand_sum(agent_hand))
       IN  /\ outcome' = s.branch
           /\ IF s.rewards = <<>>
              THEN UNCHANGED <<q_table, calls, q_prev>>
              ELSE /\ q_table' = update_q_value(q_table, state, choice, s.rewards[1], None)
                   /\ calls' = Append(calls, Call(state, choice, s.rewards[1], None))
                   /\ q_prev' = q_table
    /\ epsilon' = decay_exploration(epsilon, decay_rate)
    /\ episodes' = episodes + 1
    /\ pc' = "idle"
    /\ UNCHANGED <<mode, deck, agent_hand, agent_busted, dealer_hand, dealer_busted,
                   exploration_rate, decay_rate, state, choice, chosen>>

-----------------------------------------------------------------------------
\* play_game.  p1 is the agent as training left it.

\* Lines 322-337: the result play_game prints.
play_outcome(busted, dealer_sum, agent_sum) ==
    IF busted THEN "dealer_busted_bot_wins"
    ELSE IF dealer_sum > agent_sum THEN "dealer_wins"
    ELSE IF dealer_sum = agent_sum THEN "tie"
    ELSE "bot_wins"

\* Lines 288-305: a new round (the first one, or query = 'yes').
PlayStart ==
    /\ \/ pc = "idle"
       \/ mode = "play" /\ pc = "query"
    /\ \E d0 \in Shuffles :
          LET d1 == after_deal(d0)
              d2 == after_deal(d1)
              d3 == after_deal(d2)
          IN  /\ agent_hand' = hit(hit(<<>>, d0), d1)
              /\ dealer_hand' = hit(hit(<<>>, d2), d3)
              /\ deck' = after_deal(d3)
    /\ state' = get_state(get_hand_sum(agent_hand'), dealer_hand'[1])
    /\ agent_busted' = FALSE
    /\ dealer_busted' = FALSE
    /\ epsilon' = Zero
    /\ mode' = "play"
    /\ pc' = "agent"
    /\ outcome' = "none"
    /\ calls' = <<>>
    /\ q_prev' = q_table
    /\ chosen' = <<>>
    /\ choice' = "unbound"
    /\ UNCHANGED <<episodes, q_table, exploration_rate, decay_rate>>

\* Lines 307-315: the loop guard holds (not busted, choose_action returns 'hit').
PlayAgentHit ==
    /\ mode = "play"
    /\ pc = "agent"
    /\ ~agent_busted
    /\ "hit" \in choose_action(q_table, epsilon, state)
    /\ deck # <<>>
    /\ agent_hand' = hit(agent_hand, deck)
    /\ deck' = after_deal(deck)
    /\ agent_busted' = is_busted(agent_busted, agent_hand')
    /\ state' = get_state(get_hand_sum(agent_hand'), dealer_hand[1])
    /\ chosen' = <<state, "hit">>
    /\ UNCHANGED <<mode, pc, episodes, dealer_hand, dealer_busted, q_table, epsilon,
                   exploration_rate, decay_rate, choice, outcome, calls, q_prev>>

\* Line 307: the loop guard fails because choose_action returns 'stand'.
PlayAgentStand ==
    /\ mode = "play"
    /\ pc = "agent"
    /\ ~agent_busted
    /\ "stand" \in choose_action(q_table, epsilon, state)
    /\ chosen' = <<state, "stand">>
    /\ pc' = "dealer"
    /\ UNCHANGED <<mode, episodes, deck, agent_hand, agent_busted, dealer_hand, dealer_busted,
                   q_table, epsilon, exploration_rate, decay_rate, state, choice, outcome,
                   calls, q_prev>>

\* PlayAgentBusted without the test of line 317: the dealer plays after a bust too.
PlayAgentBusted_dealer_plays ==
    /\ mode = "play"
    /\ pc = "agent"
    /\ agent_busted
    /\ pc' = "dealer"
    /\ UNCHANGED <<mode, episodes, deck, agent_hand, agent_busted, dealer_hand, dealer_busted,
                   q_table, epsilon, exploration_rate, decay_rate, state, choice, outcome, calls,
                   q_prev, chosen>>

\* Lines 307, 317: the loop guard fails because p1 is busted; the dealer's turn is skipped.
PlayAgentBusted ==
    /\ mode = "play"
    /\ pc = "agent"
    /\ agent_busted
    /\ outcome' = "bot_busted"
    /\ pc' = "query"
    /\ UNCHANGED <<mode, episodes, deck, agent_hand, agent_busted, dealer_hand, dealer_busted,
                   q_table, epsilon, exploration_rate, decay_rate, state, choice, calls,
                   q_prev, chosen>>

\* Lines 318-320: an iteration of the dealer's loop.
PlayDealerHit ==
    /\ mode = "play"
    /\ pc = "dealer"
    /\ ~dealer_busted
    /\ should_hit(dealer_hand)
    /\ deck # <<>>
    /\ dealer_hand' = hit(dealer_hand, deck)
    /\ deck' = after_deal(deck)
    /\ dealer_busted' = is_busted(dealer_busted, dealer_hand')
    /\ UNCHANGED <<mode, pc, episodes, agent_hand, agent_busted, q_table, epsilon,
                   exploration_rate, decay_rate, state, choice, outcome, calls, q_prev, chosen>>

\* Lines 322-337: the dealer's loop has ended; the result is printed.
PlaySettle ==
    /\ mode = "play"
    /\ pc = "dealer"
    /\ ~(~dealer_busted /\ should_hit(dealer_hand))
    /\ outcome' = play_outcome(dealer_busted, get_hand_sum(dealer_hand), get_hand_sum(agent_hand))
    /\ pc' = "query"
    /\ UNCHANGED <<mode, episodes, deck, agent_hand, agent_busted, dealer_hand, dealer_busted,
                   q_table, epsilon, exploration_rate, decay_rate, state, choice, calls,
                   q_prev, chosen>>

\* Line 339 and 287: get_user_input returns 'no' and play_game returns.
PlayQuit ==
    /\ mode = "play"
    /\ pc = "query"
    /\ pc' = "exit"
    /\ UNCHANGED <<mode, episodes, deck, agent_hand, agent_busted, dealer_hand, dealer_busted,
                   q_table, epsilon, exploration_rate, decay_rate, state, choice, outcome,
                   calls, q_prev, chosen>>

-----------------------------------------------------------------------------
\* The program: AI_Player() with its default arguments, trained, then watched.

Init ==
    /\ mode = "new"
    /\ pc = "idle"
    /\ episodes = 0
    /\ deck = NewDeck
    /\ agent_hand = <<>>
    /\ agent_busted = FALSE
    /\ dealer_hand = <<>>
    /\ dealer_busted = FALSE
    /\ q_table = <<>>
    /\ epsilon = DefaultExplorationRate
    /\ exploration_rate = DefaultExplorationRate
    /\ decay_rate = TrainDecayRate
    /\ state = None
    /\ choice = "unbound"
    /\ outcome = "none"
    /\ calls = <<>>
    /\ q_prev = <<>>
    /\ chosen = <<>>

Next ==
    \/ TrainStart
    \/ TrainStand
    \/ TrainHit
    \/ TrainSettle
    \/ PlayStart
    \/ PlayAgentHit
    \/ PlayAgentStand
    \/ PlayAgentBusted
    \/ PlayDealerHit
    \/ PlaySettle
    \/ PlayQuit

Spec == Init /\ [][Next]_vars

-----------------------------------------------------------------------------
\* decay_exploration on its own: an agent constructed with any exploration rate, on
\* which decay_exploration(decay_rate) is called again and again with one decay rate.
\* The method writes self.epsilon and nothing else.  train_module makes this call once
\* per episode with decay_rate = 0.9999 (TrainSettle); the other rates are the method's
\* argument as any other caller may pass it.

DecayRateList ==
    <<Dec(5000, 1), Dec(9000, 1), One, Dec(2500, 1), TrainDecayRate, Dec(7500, 1), Dec(9500, 1)>>

DecayRates ==
    {DecayRateList[i] : i \in 1..(IF NumDecayRates < Len(DecayRateList) THEN NumDecayRates
                                                                         ELSE Len(DecayRateList))}

ExplorationRateList ==
    <<One, Zero, Dec(500, 1), EpsilonFloor, Dec(5000, 1), Dec(3000, 1), Dec(1001, 1), Dec(2000, 1)>>

ExplorationRates ==
    {ExplorationRateList[i] :
        i \in 1..(IF NumExplorationRates < Len(ExplorationRateList) THEN NumExplorationRates
                                                                     ELSE Len(ExplorationRateList))}

\* agent = AI_Player(exploration_rate=e); the calls will be agent.decay_exploration(r).
InitEps ==
    /\ mode = "eps"
    /\ pc = "idle"
    /\ episodes = 0
    /\ deck = NewDeck
    /\ agent_hand = <<>>
    /\ agent_busted = FALSE
    /\ dealer_hand = <<>>
    /\ dealer_busted = FALSE
    /\ q_table = <<>>
    /\ exploration_rate \in ExplorationRates
    /\ epsilon = exploration_rate
    /\ decay_rate \in DecayRates
    /\ state = None
    /\ choice = "unbound"
    /\ outcome = "none"
    /\ calls = <<>>
    /\ q_prev = <<>>
    /\ chosen = <<>>

\* agent.decay_exploration(decay_rate): self.epsilon = max(0.1, self.epsilon * decay_rate).
DecayExploration ==
    /\ mode = "eps"
    /\ epsilon' = decay_exploration(epsilon, decay_rate)
    /\ UNCHANGED <<mode, pc, episodes, deck, agent_hand, agent_busted, dealer_hand,
                   dealer_busted, q_table, exploration_rate, decay_rate, state, choice,
                   outcome, calls, q_prev, chosen>>

NextEps == DecayExploration

\* The caller keeps calling: train_module's for-loop reaches line 204 at the end of
\* every episode, so a decay that is due happens.
SpecEps == InitEps /\ [][NextEps]_vars /\ WF_vars(DecayExploration)


-----------------------------------------------------------------------------
\* Properties.

DealerSum == get_hand_sum(dealer_hand)
AgentSum == get_hand_sum(agent_hand)

\* An episode of train_module has run to its end and the next has not begun.
TrainSettled == mode = "train" /\ pc = "idle" /\ episodes > 0

\* A round of play_game has run to its end.
PlaySettled == mode = "play" /\ pc \in {"query", "exit"}

LastCall == calls[Len(calls)]

TerminalCalls == {i \in 1..Len(calls) : calls[i].next_state = None}

\* C1: whenever the dealer's draw decision is taken in a round, it is true exactly
\* when the dealer's total is at most 16, so the dealer never draws at 17 or more.
C1_DealerDrawsExactlyUpTo16 ==
    (mode = "play" /\ pc = "dealer" /\ ~dealer_busted)
        => (should_hit(dealer_hand) <=> DealerSum <= 16)

\* C2: when a training episode in which the agent stood without busting is settled,
\* the dealer's turn has been played: the dealer has busted or stands on 17 or more.
C2_DealerTurnBeforeTrainSettlement ==
    (TrainSettled /\ ~agent_busted) => (DealerSum > 21 \/ DealerSum >= 17)

\* C3: whenever a settlement (of a training episode or of a round of play_game) is
\* reached with the dealer bust and the agent not bust, the reward +1 has been applied
\* to the agent's last (state, action) pair, as a terminal update.
C3_DealerBustRewardsAgent ==
    ((TrainSettled \/ PlaySettled) /\ DealerSum > 21 /\ AgentSum <= 21) =>
        /\ calls # <<>>
        /\ LastCall = Call(chosen[1], chosen[2], One, None)

\* C4: a training episode that ends with the agent standing applies exactly one
\* settlement update, to (state at which the agent stood, stand) with terminal
\* next_state, with reward +1 on a win, +0.5 on a push and -0.5 on a loss.
C4_StandSettlementUpdate ==
    (TrainSettled /\ choice = "stand") =>
        /\ calls # <<>>
        /\ LastCall = Call(get_state(AgentSum, dealer_hand[1]), "stand",
                           IF DealerSum > 21 \/ AgentSum > DealerSum THEN Dec(1, 0)
                           ELSE IF AgentSum = DealerSum THEN Dec(5000, 1)
                           ELSE Dec(-5000, 1),
                           None)
        /\ Cardinality({i \in 1..Len(calls) : calls[i].action = "stand"}) = 1
        /\ Cardinality(TerminalCalls) = 1

\* The agent stood as its very first action in the first episode.
C4_Witness ==
    TrainSettled /\ choice = "stand" /\ episodes = 1 /\ Len(agent_hand) = 2 /\ Len(calls) = 1

\* C5: every finished training episode has made exactly one update with terminal
\* next_state; when the agent busted it is the bust update (hit, reward -1), the
\* last update of the episode, and the settlement made none.
C5_OneTerminalUpdatePerEpisode ==
    TrainSettled =>
        /\ Cardinality(TerminalCalls) = 1
        /\ agent_busted =>
              /\ outcome = "bust"
              /\ TerminalCalls = {Len(calls)}
              /\ LastCall.action = "hit"
              /\ LastCall.reward = Dec(-1, 0)

C5_Witness == TrainSettled /\ agent_busted /\ Len(calls) >= 2

\* The update a hit must be followed by: hit number i took the hand from its
\* first i + 1 cards to its first i + 2 cards.
ExpectedHitCall(i) ==
    LET before == get_hand_sum(SubSeq(agent_hand, 1, i + 1))
        after == get_hand_sum(SubSeq(agent_hand, 1, i + 2))
    IN  IF after > 21
        THEN Call(get_state(before, dealer_hand[1]), "hit", Dec(-1, 0), None)
        ELSE Call(get_state(before, dealer_hand[1]), "hit", Dec(1, 0),
                  get_state(after, dealer_hand[1]))

\* C6: in training every hit is followed, before the next action is chosen, by exactly
\* one update of (state before the hit, hit): reward -1 and terminal next_state if the
\* hit busts the agent, which ends the agent's turn, otherwise reward +1 and the
\* recomputed state, which is the current state of the next iteration.
C6_OneUpdatePerHit ==
    (mode = "train" /\ Len(agent_hand) >= 2) =>
        LET hits == Len(agent_hand) - 2
        IN  /\ Len(SelectSeq(calls, LAMBDA c : c.action = "hit")) = hits
            /\ Len(calls) >= hits
            /\ \A i \in 1..hits :
                  /\ calls[i] = ExpectedHitCall(i)
                  /\ calls[i].next_state = None => (i = hits /\ agent_busted)
            /\ (pc = "loop" /\ hits > 0) => state = calls[hits].next_state

\* Two hits that did not bust, and the third action not chosen yet.
C6_Witness ==
    mode = "train" /\ pc = "loop" /\ Len(agent_hand) = 4 /\ ~agent_busted /\ Len(calls) = 2

\* Q[s] of table q, [0, 0] when s is absent.
Entry(q, s) == IF s \in DOMAIN q THEN q[s] ELSE <<Dec(0, 0), Dec(0, 0)>>

\* The larger value of Q[next_state], 0 for the terminal next_state.
NextMax(q, ns) ==
    IF ns = None THEN Dec(0, 0)
    ELSE IF DecLess(Entry(q, ns)[1], Entry(q, ns)[2]) THEN Entry(q, ns)[2] ELSE Entry(q, ns)[1]

ActionIndex(a) == IF a = "hit" THEN 1 ELSE 2

\* C7: after update_q_value(state, action, reward, next_state), Q[state][action] is
\* old + alpha * (reward + gamma * next_max - old) with alpha = 0.3 and gamma = 0.95,
\* computed as Python computes a float expression: product, sum, difference, product
\* and sum, each rounded; old and next_max are read from the table before the call
\* (0 for an absent state and for the terminal next_state).  On an empty table,
\* reward 1 and a non-terminal next_state give Q[state][hit] = alpha = 0.3.
C7_UpdateRule ==
    calls # <<>> =>
        LET c == LastCall
            old == Entry(q_prev, c.state)[ActionIndex(c.action)]
        IN  /\ c.state \in DOMAIN q_table
            /\ q_table[c.state][ActionIndex(c.action)] =
                  DecAdd(old,
                         DecMul(Dec(3000, 1),
                                DecSub(DecAdd(c.reward,
                                              DecMul(Dec(9500, 1), NextMax(q_prev, c.next_state))),
                                       old)))
            /\ (q_prev = <<>> /\ c.action = "hit" /\ c.reward = Dec(1, 0) /\ c.next_state # None)
                  => q_table[c.state][1] = Dec(3000, 1)

\* An update whose next_state has a positive value and whose old value is not 0.
C7_Witness ==
    /\ calls # <<>>
    /\ LastCall.next_state # None
    /\ DecLess(Dec(0, 0), NextMax(q_prev, LastCall.next_state))
    /\ Entry(q_prev, LastCall.state)[ActionIndex(LastCall.action)] # Dec(0, 0)

\* C8: with epsilon = 0, choose_action(state) returns hit exactly when
\* Q[state][hit] >= Q[state][stand] (an absent state counts as [0, 0]) and stand
\* otherwise; on an empty Q-table it returns hit for every state.
C8_GreedyChoice ==
    (mode = "play" /\ epsilon = Dec(0, 0) /\ chosen # <<>>) =>
        /\ chosen[2] = "hit" <=> DecLeq(Entry(q_table, chosen[1])[2], Entry(q_table, chosen[1])[1])
        /\ chosen[2] = "stand" <=> DecLess(Entry(q_table, chosen[1])[1], Entry(q_table, chosen[1])[2])
        /\ q_table = <<>> => chosen[2] = "hit"

\* On an empty table the agent hits a total of 21 dealt as its first two cards.
C8_Witness ==
    /\ mode = "play"
    /\ q_table = <<>>
    /\ chosen = << <<21, 10>>, "hit" >>
    /\ Len(agent_hand) = 3

\* C9 as stated: for any exploration rate in [0, 1] and any decay rate in (0, 1],
\* epsilon after the decay_exploration call that ends an episode is never greater than
\* epsilon before it.
C9_EpsilonNeverIncreases == [][DecLeq(epsilon', epsilon)]_vars

\* C9 amended: for an agent constructed with an exploration rate in [0.1, 1], epsilon
\* after the decay_exploration call that ends an episode is never greater than epsilon
\* before it.
C9_EpsilonNeverIncreasesFromFloor ==
    [][DecLeq(Dec(1000, 1), exploration_rate) => DecLeq(epsilon', epsilon)]_vars

\* An agent constructed above the floor whose epsilon has decayed.
C9_Witness ==
    /\ mode = "eps"
    /\ DecLess(Dec(1000, 1), exploration_rate)
    /\ DecLess(exploration_rate, Dec(1, 0))
    /\ DecLess(epsilon, exploration_rate)
    /\ DecLess(Dec(1000, 1), epsilon)

\* C10: starting from epsilon = 1.0 and decayed again and again by decay_exploration
\* with 0.9999 or another rate strictly between 0 and 1, epsilon is never below 0.1,
\* eventually is exactly 0.1, and then stays 0.1.
C10_EpsilonReachesFloor ==
    (epsilon = Dec(1, 0) /\ DecLess(Dec(0, 0), decay_rate) /\ DecLess(decay_rate, Dec(1, 0)))
        => ([]DecLeq(Dec(1000, 1), epsilon) /\ <>[](epsilon = Dec(1000, 1)))

\* The agent started at 1.0 and has reached the floor.
C10_Witness ==
    /\ mode = "eps"
    /\ exploration_rate = Dec(1, 0)
    /\ DecLess(decay_rate, Dec(1, 0))
    /\ epsilon = Dec(1000, 1)

-----------------------------------------------------------------------------
\* Single rounds: the first training episode of a newly constructed agent, dealt from
\* any of the shuffles or from LongestHandShuffle, and then rounds of play_game with
\* the agent that episode has left.  train_module and play_game run their statements
\* one after the other, so a round that can take a step takes one.

RoundShuffles == Shuffles \cup {LongestHandShuffle}

\* Lines 157-167 for the first episode of AI_Player(): the state TrainStart leaves.
InitRound ==
    /\ mode = "train"
    /\ pc = "loop"
    /\ episodes = 0
    /\ \E d0 \in RoundShuffles :
          LET d1 == after_deal(d0)
              d2 == after_deal(d1)
              d3 == after_deal(d2)
          IN  /\ agent_hand = hit(hit(<<>>, d0), d1)
              /\ dealer_hand = hit(hit(<<>>, d2), d3)
              /\ deck = after_deal(d3)
    /\ state = get_state(get_hand_sum(agent_hand), dealer_hand[1])
    /\ agent_busted = FALSE
    /\ dealer_busted = FALSE
    /\ q_table = <<>>
    /\ epsilon = DefaultExplorationRate
    /\ exploration_rate = DefaultExplorationRate
    /\ decay_rate = TrainDecayRate
    /\ choice = "unbound"
    /\ outcome = "none"
    /\ calls = <<>>
    /\ q_prev = <<>>
    /\ chosen = <<>>

NextRound ==
    \/ TrainStand
    \/ TrainHit
    \/ TrainSettle
    \/ PlayStart
    \/ PlayAgentHit
    \/ PlayAgentStand
    \/ PlayAgentBusted
    \/ PlayDealerHit
    \/ PlaySettle
    \/ PlayQuit

SpecRound ==
    /\ InitRound
    /\ [][NextRound]_vars
    /\ WF_vars(TrainStand \/ TrainHit \/ TrainSettle)
    /\ WF_vars(PlayAgentHit \/ PlayAgentStand \/ PlayAgentBusted \/ PlayDealerHit \/ PlaySettle)

\* A round (training episode or round of play_game) has been dealt and is not over.
InRound ==
    \/ mode = "train" /\ pc \in {"loop", "settle"}
    \/ mode = "play" /\ pc \in {"agent", "dealer"}

\* The next statement of the round may be a hit.
DrawPoint ==
    \/ mode = "train" /\ pc = "loop" /\ ~agent_busted
    \/ mode = "play" /\ pc = "agent" /\ ~agent_busted
    \/ mode = "play" /\ pc = "dealer" /\ ~dealer_busted /\ should_hit(dealer_hand)

\* C11: every round dealt from a freshly shuffled 52-card deck comes to its end (bust
\* or settlement), whatever the shuffle and the agent's choices, and wherever the
\* round may draw a card the deck is not empty.
C11_EpisodeTerminates ==
    /\ [](DrawPoint => deck # <<>>)
    /\ [](InRound => <>(~InRound))

\* The longest hand there is: four aces, four twos and three threes make 21 with
\* eleven cards, and the twelfth card busts the agent and ends the episode.
C11_Witness ==
    TrainSettled /\ agent_busted /\ Len(agent_hand) = 12 /\ Len(deck) = 38

-----------------------------------------------------------------------------
\* A deck on its own: Deck(), shuffle_deck() as the program calls it (once, on the new
\* deck), and a player who hits until the deck is empty and once more.

InitDeck ==
    /\ mode = "deck"
    /\ pc = "new_deck"
    /\ episodes = 0
    /\ deck = NewDeck
    /\ agent_hand = <<>>
    /\ agent_busted = FALSE
    /\ dealer_hand = <<>>
    /\ dealer_busted = FALSE
    /\ q_table = <<>>
    /\ epsilon = DefaultExplorationRate
    /\ exploration_rate = DefaultExplorationRate
    /\ decay_rate = TrainDecayRate
    /\ state = <<>>
    /\ choice = "unbound"
    /\ outcome = "none"
    /\ calls = <<>>
    /\ q_prev = <<>>
    /\ chosen = <<>>

\* deck.shuffle_deck()
DeckShuffle ==
    /\ mode = "deck"
    /\ pc = "new_deck"
    /\ deck' \in RoundShuffles
    /\ pc' = "dealing"
    /\ UNCHANGED <<mode, episodes, agent_hand, agent_busted, dealer_hand, dealer_busted, q_table,
                   epsilon, exploration_rate, decay_rate, state, choice, outcome, calls, q_prev,
                   chosen>>

\* player.hit(deck); an exception ends the program.
DeckHit ==
    /\ mode = "deck"
    /\ pc \in {"new_deck", "dealing"}
    /\ LET r == Player_hit(agent_hand, deck)
       IN  /\ agent_hand' = r.hand
           /\ deck' = r.cards
           /\ outcome' = IF r.raised = "none" THEN "dealt" ELSE r.raised
           /\ pc' = IF r.raised = "none" THEN "dealing" ELSE "raised"
    /\ UNCHANGED <<mode, episodes, agent_busted, dealer_hand, dealer_busted, q_table, epsilon,
                   exploration_rate, decay_rate, state, choice, calls, q_prev, chosen>>

NextDeck ==
    \/ DeckShuffle
    \/ DeckHit

SpecDeck == InitDeck /\ [][NextDeck]_vars

\* C12: a deal from a deck with no cards left fails with an error instead of returning
\* a card, and the failed draw leaves the deck empty and the player's hand as it was.
C12_EmptyDeckDealFails ==
    [][(mode = "deck" /\ deck = <<>> /\ pc # "raised")
          => (outcome' = "IndexError" /\ pc' = "raised" /\ deck' = <<>> /\ agent_hand' = agent_hand)]_vars

\* The 53rd hit after a shuffle has failed.
C12_Witness ==
    mode = "deck" /\ pc = "raised" /\ outcome = "IndexError" /\ deck = <<>> /\ Len(agent_hand) = 52
       /\ agent_hand[1] # NewDeck[1]

\* The 52 canonical (rank, suit) pairs.
CanonicalCards == {Card(Ranks[i], Suits[j]) : i \in 1..Len(Ranks), j \in 1..Len(Suits)}

\* The cards of a sequence, as a set.
CardsOf(cards) == {cards[i] : i \in 1..Len(cards)}

\* C13: a new deck holds exactly the 52 distinct canonical cards; a shuffle only
\* permutes them; each deal removes exactly the front card, which is the card the
\* player gets, so the deck shrinks by one; hence the 52 deals after a shuffle return
\* every canonical card exactly once.
C13_DeckDealsEveryCardOnce ==
    /\ [](mode = "deck" =>
            /\ Cardinality(CanonicalCards) = 52
            /\ Len(agent_hand) + Len(deck) = 52
            /\ CardsOf(agent_hand) \cup CardsOf(deck) = CanonicalCards
            /\ (pc = "new_deck" /\ agent_hand = <<>> => deck = NewDeck)
            /\ (deck = <<>> => Len(agent_hand) = 52 /\ CardsOf(agent_hand) = CanonicalCards))
    /\ [][(mode = "deck" /\ deck # <<>> /\ agent_hand' # agent_hand)
            => (/\ agent_hand' = Append(agent_hand, Head(deck))
                /\ deck' = Tail(deck)
                /\ Len(deck') = Len(deck) - 1)]_vars
    /\ [][(mode = "deck" /\ pc = "new_deck" /\ agent_hand' = agent_hand)
            => (Len(deck') = Len(deck) /\ CardsOf(deck') = CardsOf(deck))]_vars

\* All 52 cards have been dealt after a shuffle that moved the deck's first card.
C13_Witness ==
    mode = "deck" /\ pc = "dealing" /\ deck = <<>> /\ Len(agent_hand) = 52
       /\ agent_hand[52] # NewDeck[52] /\ outcome = "dealt"

-----------------------------------------------------------------------------
\* get_hand_sum on its own: a player holding any hand of at most MaxHandLen cards,
\* asked for its total, and asked again after two neighbouring cards have changed
\* places.

HandRankList == <<"A", "K", "Q", "9", "2", "5", "10", "J", "3", "4", "6", "7", "8">>

HandRanks ==
    {HandRankList[i] : i \in 1..(IF NumHandRanks < Len(HandRankList) THEN NumHandRanks
                                                                      ELSE Len(HandRankList))}

\* The hand with the given ranks: the k-th card of a rank has the k-th suit.
HandOf(ranks) ==
    [i \in 1..Len(ranks) |->
        Card(ranks[i], Suits[Cardinality({j \in 1..i : ranks[j] = ranks[i]})])]

\* Rank sequences a deck can deal: no rank more than four times.
Hands ==
    {HandOf(ranks) : ranks \in
        {r \in UNION {[1..n -> HandRanks] : n \in 0..MaxHandLen} :
            \A i \in 1..Len(r) : Cardinality({j \in 1..Len(r) : r[j] = r[i]}) <= Len(Suits)}}

InitHand ==
    /\ mode = "hand"
    /\ pc = "dealt"
    /\ episodes = 0
    /\ deck = NewDeck
    /\ agent_hand \in Hands
    /\ agent_busted = FALSE
    /\ dealer_hand = <<>>
    /\ dealer_busted = FALSE
    /\ q_table = <<>>
    /\ epsilon = DefaultExplorationRate
    /\ exploration_rate = DefaultExplorationRate
    /\ decay_rate = TrainDecayRate
    /\ state = <<>>
    /\ choice = "unbound"
    /\ outcome = "none"
    /\ calls = <<>>
    /\ q_prev = <<>>
    /\ chosen = <<>>

\* player.get_hand_sum(); outcome holds the total returned.
HandSum ==
    /\ mode = "hand"
    /\ pc = "dealt"
    /\ outcome' = get_hand_sum(agent_hand)
    /\ pc' = "summed"
    /\ UNCHANGED <<mode, episodes, deck, agent_hand, agent_busted, dealer_hand, dealer_busted,
                   q_table, epsilon, exploration_rate, decay_rate, state, choice, calls, q_prev,
                   chosen>>

\* Two neighbouring cards of the hand change places; player.get_hand_sum() again.
HandReorder ==
    /\ mode = "hand"
    /\ pc = "summed"
    /\ \E i \in 1..(Len(agent_hand) - 1) :
          agent_hand' = [agent_hand EXCEPT ![i] = agent_hand[i + 1], ![i + 1] = agent_hand[i]]
    /\ outcome' = get_hand_sum(agent_hand')
    /\ UNCHANGED <<mode, pc, episodes, deck, agent_busted, dealer_hand, dealer_busted, q_table,
                   epsilon, exploration_rate, decay_rate, state, choice, calls, q_prev, chosen>>

NextHand ==
    \/ HandSum
    \/ HandReorder

SpecHand == InitHand /\ [][NextHand]_vars

\* The number of cards of a rank in a hand.
RankCount(hand, rank) == Cardinality({i \in 1..Len(hand) : hand[i].rank = rank})

\* The total of a hand with every ace counted as 1, from its multiset of ranks.
LowTotal(hand) ==
    LET value(rank) == IF rank = "A" THEN 1
                       ELSE IF rank \in {"J", "Q", "K"} THEN 10
                       ELSE 1 + (CHOOSE n \in 1..9 : Ranks[n] = rank)
        upto[i \in 0..Len(Ranks)] ==
            IF i = 0 THEN 0 ELSE upto[i - 1] + RankCount(hand, Ranks[i]) * value(Ranks[i])
    IN  upto[Len(Ranks)]

\* The best total: the highest one not above 21 among the totals with some aces
\* counted as 11, and the total with every ace counted as 1 when there is none.
BestTotal(hand) ==
    LET totals == {LowTotal(hand) + 10 * k : k \in 0..RankCount(hand, "A")}
        good == {t \in totals : t <= 21}
    IN  IF good # {} THEN CHOOSE t \in good : \A u \in good : u <= t ELSE LowTotal(hand)

\* C14: get_hand_sum returns the best total of the hand's multiset of ranks, and a
\* hand whose cards change places keeps its total.
C14_BestTotalInAnyOrder ==
    /\ [](mode = "hand" /\ pc = "summed" => outcome = BestTotal(agent_hand))
    /\ [][mode = "hand" /\ pc = "summed" => outcome' = outcome]_vars

\* {9, A, A} has been reordered and totals 21 with one ace demoted.
C14_Witness ==
    /\ mode = "hand"
    /\ pc = "summed"
    /\ Len(agent_hand) = 3
    /\ agent_hand[1].rank = "9"
    /\ agent_hand[2].suit = Suits[2]
    /\ RankCount(agent_hand, "A") = 2
    /\ outcome = 21

\* C15: wherever the round reads a bust flag (the agent's at the guard of its loop and
\* at the settlement, the dealer's at the guard of the dealer's loop and at the
\* result), the flag is true exactly when the hand's total exceeds 21, also in a new
\* round after the hand has been cleared.
C15_BustFlagAgreesWithHand ==
    /\ ((mode = "train" /\ pc \in {"loop", "settle"}) \/ (mode = "play" /\ pc \in {"agent", "dealer"}))
          => (agent_busted <=> get_hand_sum(agent_hand) > 21)
    /\ (mode = "play" /\ pc = "dealer")
          => (dealer_busted <=> get_hand_sum(dealer_hand) > 21)

\* The agent's flag is read as true in a second episode: it was cleared with the hand
\* and set again by this episode's bust.
C15_Witness ==
    /\ mode = "train"
    /\ pc = "loop"
    /\ episodes = 1
    /\ agent_busted
    /\ get_hand_sum(agent_hand) > 21

\* C16: the start of a training episode deals a fresh deck to an agent with a cleared
\* hand and flag and to a fresh dealer, and leaves the Q-table and epsilon exactly as
\* they were; and no step of a training run removes an entry of the Q-table.
C16_EpisodeStartKeepsTable ==
    /\ [][(pc = "idle" /\ mode' = "train" /\ pc' = "loop")
            => (/\ q_table' = q_table
                /\ epsilon' = epsilon
                /\ Len(agent_hand') = 2
                /\ ~agent_busted'
                /\ Len(dealer_hand') = 2
                /\ ~dealer_busted'
                /\ Len(deck') = 48)]_vars
    /\ [][mode' = "train" => (\A s \in DOMAIN q_table : s \in DOMAIN q_table')]_vars

\* A second episode has just been dealt: the table and the decayed epsilon of the
\* first episode are still there.
C16_Witness ==
    /\ mode = "train"
    /\ pc = "loop"
    /\ episodes = 1
    /\ calls = <<>>
    /\ chosen = <<>>
    /\ DOMAIN q_table # {}
    /\ epsilon = Dec(9999, 1)

\* C17: the dealer's turn is entered only when the agent ended its turn without
\* busting: once the agent has busted, the dealer holds just its two dealt cards and
\* the round ends without a comparison of the totals.
C17_NoDealerTurnAfterBust ==
    (mode \in {"train", "play"} /\ agent_busted) =>
        /\ pc # "dealer"
        /\ Len(dealer_hand) = 2
        /\ outcome \in {"none", "bust", "bot_busted"}
        /\ (pc \in {"idle", "query", "exit"} => outcome \in {"bust", "bot_busted"})

\* A round of play_game has ended by the agent's bust.
C17_Witness ==
    /\ mode = "play"
    /\ pc = "query"
    /\ agent_busted
    /\ outcome = "bot_busted"
    /\ Len(dealer_hand) = 2

\* A key of the Q-table as get_state builds it from a total of at most 21.
ValidKey(k) == k # None /\ Len(k) = 2 /\ k[1] \in 4..21 /\ k[2] \in 2..11

\* C18: every key of the Q-table is a pair (p, d) with 4 <= p <= 21 and 2 <= d <= 11;
\* every update_q_value call of an episode has such a state, whose d is the value of
\* the dealer's first card, never the terminal sentinel or a bust total; and
\* choose_action is never asked about a bust total.
C18_KeysAreLiveStates ==
    /\ \A k \in DOMAIN q_table : ValidKey(k)
    /\ mode = "train" =>
          \A i \in 1..Len(calls) :
              ValidKey(calls[i].state) /\ calls[i].state[2] = CardValue(dealer_hand[1].rank)
    /\ (mode \in {"train", "play"} /\ chosen # <<>>) => ValidKey(chosen[1])

\* An episode in which the agent hit at 21 and busted: the key with p = 21 is written
\* and the bust total is not.
C18_Witness ==
    /\ TrainSettled
    /\ agent_busted
    /\ calls # <<>>
    /\ LastCall.state[1] = 21
    /\ LastCall.state \in DOMAIN q_table
    /\ get_hand_sum(agent_hand) > 21

\* C19: update_q_value(state, action, reward, next_state) changes only
\* Q[state][action]: the other action's value of that state is as before (0 for a new
\* entry), every other entry is as before, and no entry is created for next_state;
\* and a step that only calls choose_action leaves the whole Q-table as it was.
C19_UpdateTouchesOneValue ==
    /\ [](calls # <<>> =>
            LET c == LastCall
                other == 3 - ActionIndex(c.action)
            IN  /\ DOMAIN q_table = DOMAIN q_prev \cup {c.state}
                /\ \A k \in DOMAIN q_prev : k # c.state => q_table[k] = q_prev[k]
                /\ q_table[c.state][other] = Entry(q_prev, c.state)[other]
                /\ (c.next_state # c.state /\ c.next_state \notin DOMAIN q_prev)
                      => c.next_state \notin DOMAIN q_table)
    /\ [][(chosen' # chosen /\ calls' = calls) => q_table' = q_table]_vars

\* A hit has been updated for a new state whose next_state is not in the table, in
\* a table that already holds other entries.
C19_Witness ==
    /\ mode = "train"
    /\ calls # <<>>
    /\ LastCall.action = "hit"
    /\ LastCall.next_state # None
    /\ LastCall.next_state \notin DOMAIN q_table
    /\ LastCall.state \notin DOMAIN q_prev
    /\ DOMAIN q_prev # {}

====
